---- MODULE Spec2Model ----
(***************************************************************************)
(* Model of the tile cache (osm.py, class OSMCache) and of the quadkey     *)
(* arithmetic of the tile system (Maps.py, class Map).                     *)
(*                                                                         *)
(* Units.  Python floats are modelled in fixed point:                      *)
(*   - degrees are integers in millidegrees (60 degrees = 60000);          *)
(*   - the Mercator fraction (0 at the top edge of the world map, 1 at the *)
(*     bottom edge) is an integer in millionths.                           *)
(* The transcendental functions are tables over the sampled arguments; the *)
(* arithmetic around them (scaling by 2^zoom, int() truncation) is done as *)
(* the code does it.                                                       *)
(*                                                                         *)
(* Strings are sequences of one-character strings, so that the formatting  *)
(* of cache paths is computed and not assumed to be injective.             *)
(***************************************************************************)
EXTENDS Integers, Sequences, FiniteSets, TLC

VARIABLES
    tiles,      \* tile store: path of a tile file |-> what the file holds
    images,     \* composed-image store: path of an image file |-> raster
    paused,     \* TRUE iff no GET was issued yet or time.sleep ran since the last GET
    ncalls,     \* number of calls made so far
    last,       \* what the most recent call did and returned
    prev,       \* history: the call before the most recent one
    built,      \* history: image path |-> the call that wrote the file
    mapcall     \* the most recent call of a Map function and its result

vars == <<tiles, images, paused, ncalls, last, prev, built, mapcall>>

cachevars == <<tiles, images, paused, ncalls, last, prev, built>>

----------------------------------------------------------------------------
(* Bounds of the model *)

\* number of OSMCache calls in one behaviour
MaxCalls == 2

\* deepest zoom level of the quadkey functions' inputs
MaxQuadZoom == 3

----------------------------------------------------------------------------
(* Python primitives *)

\* int(a / b) for b > 0: Python's int() truncates toward zero
Trunc(a, b) == IF a >= 0 THEN a \div b ELSE -((-a) \div b)

\* 2**zoom
RECURSIVE Pow2(_)
Pow2(k) == IF k = 0 THEN 1 ELSE 2 * Pow2(k - 1)

Min2(a, b) == IF a <= b THEN a ELSE b

Max2(a, b) == IF a >= b THEN a ELSE b

DigitChar(d) ==
    CASE d = 0 -> "0" [] d = 1 -> "1" [] d = 2 -> "2" [] d = 3 -> "3"
      [] d = 4 -> "4" [] d = 5 -> "5" [] d = 6 -> "6" [] d = 7 -> "7"
      [] d = 8 -> "8" [] d = 9 -> "9"

\* str(i) of a non-negative integer
RECURSIVE StrNat(_)
StrNat(i) == IF i < 10 THEN <<DigitChar(i)>>
             ELSE StrNat(i \div 10) \o <<DigitChar(i % 10)>>

\* str(i) / f"{i}" of an integer
Str(i) == IF i < 0 THEN <<"-">> \o StrNat(-i) ELSE StrNat(i)

\* os.path.join of two components
PathJoin(a, b) == a \o <<"/">> \o b

\* the value of an expression that is evaluated once: The({e(x) : x \in {v}})
The(S) == CHOOSE x \in S : TRUE

\* range(a, b + 1) as a sequence
Range(a, b) == [i \in 1..Max2(0, b - a + 1) |-> a + i - 1]

----------------------------------------------------------------------------
(* Inputs of the calls *)

\* names of composed images
Names == {<<"home">>, <<"away">>}

\* zoom levels of the requests
Zooms == {0, 1}

\* pairs of corner points (latitude, longitude), in millidegrees: two points
\* of one zoom-1 tile, given in both orders; opposite quadrants of the world;
\* a corner on the antimeridian (longitude 180); a corner on the south pole
Corners == { << <<60000, -100000>>, <<50000, -90000>> >>,
             << <<50000, -90000>>, <<60000, -100000>> >>,
             << <<60000, -100000>>, <<-60000, 100000>> >>,
             << <<50000, -90000>>, <<-60000, 180000>> >>,
             << <<0, 0>>, <<-90000, 0>> >> }

\* what one urlretrieve call can do: store the whole body, raise before the
\* destination file is opened, or raise while reading the body, which leaves
\* the truncated file behind
FetchOutcomes == {"ok", "fail", "partial"}

----------------------------------------------------------------------------
(* osm.py: OSMCache *)

tile_cache_dir == <<"tilecache">>

image_cache_dir == <<"imagecache">>

tile_server_url == <<"https://tile.openstreetmap.org">>

\* math.log(math.tan(lat_rad) + 1 / math.cos(lat_rad)) / math.pi, in
\* millionths; at latitude -90 the argument of the logarithm is 0.0 and
\* math.log raises ValueError
LogTanSec(lat) ==
    CASE lat =  60000 -> [ok |-> TRUE, val |-> 419201]
      [] lat =  50000 -> [ok |-> TRUE, val |-> 321710]
      [] lat =      0 -> [ok |-> TRUE, val |-> 0]
      [] lat = -60000 -> [ok |-> TRUE, val |-> -419201]
      [] lat = -90000 -> [ok |-> FALSE, val |-> "ValueError"]

\* math.degrees(math.atan(math.sinh(math.pi * t))) in millidegrees, for
\* t = q / 2
AtanSinh(q) ==
    CASE q =  2 -> 85051
      [] q =  1 -> 66513
      [] q =  0 -> 0
      [] q = -1 -> -66513
      [] q = -2 -> -85051

_degrees_to_tile(lat, lon, zoom) ==
    LET n == Pow2(zoom)
        xtile == Trunc((lon + 180000) * n, 360000)
        m == LogTanSec(lat)
    IN  IF ~m.ok THEN m
        ELSE [ok |-> TRUE,
              val |-> <<xtile, Trunc((1000000 - m.val) * n, 2000000)>>]

\* returns (lat_deg, lon_deg)
_tile_to_degrees(xtile, ytile, zoom) ==
    LET n == Pow2(zoom)
        lon_deg == (xtile * 360000) \div n - 180000
        lat_deg == AtanSinh(((n - 2 * ytile) * 2) \div n)
    IN  <<lat_deg, lon_deg>>

_get_tile_path(xtile, ytile, zoom) ==
    PathJoin(PathJoin(PathJoin(tile_cache_dir, Str(zoom)), Str(xtile)),
             Str(ytile) \o <<".png">>)

\* Mutant of _get_image_path: the file name leaves out the zoom.
_get_image_path_nozoom(name, min_lat, max_lat, min_lon, max_lon, zoom) ==
    LET topleft == _degrees_to_tile(max_lat, min_lon, zoom)
        bottomright == _degrees_to_tile(min_lat, max_lon, zoom)
    IN  IF ~topleft.ok THEN topleft
        ELSE IF ~bottomright.ok THEN bottomright
        ELSE LET topleft_string ==
                     Str(topleft.val[1]) \o <<"_">> \o Str(topleft.val[2])
                 bottomright_string ==
                     Str(bottomright.val[1]) \o <<"_">> \o Str(bottomright.val[2])
             IN  [ok |-> TRUE,
                  val |-> PathJoin(PathJoin(image_cache_dir, name),
                                   topleft_string \o <<"-">> \o bottomright_string
                                     \o <<".png">>)]

_get_image_path(name, min_lat, max_lat, min_lon, max_lon, zoom) ==
    LET topleft == _degrees_to_tile(max_lat, min_lon, zoom)
        bottomright == _degrees_to_tile(min_lat, max_lon, zoom)
    IN  IF ~topleft.ok THEN topleft
        ELSE IF ~bottomright.ok THEN bottomright
        ELSE LET topleft_string ==
                     Str(topleft.val[1]) \o <<"_">> \o Str(topleft.val[2])
                 bottomright_string ==
                     Str(bottomright.val[1]) \o <<"_">> \o Str(bottomright.val[2])
             IN  [ok |-> TRUE,
                  val |-> PathJoin(PathJoin(image_cache_dir, name),
                                   topleft_string \o <<"-">> \o bottomright_string
                                     \o <<"-">> \o Str(zoom) \o <<".png">>)]

_get_tile_url(xtile, ytile, zoom) ==
    tile_server_url \o <<"/">> \o Str(zoom) \o <<"/">> \o Str(xtile)
        \o <<"/">> \o Str(ytile) \o <<".png">>

\* One event of a call: a network GET of a URL (paced: whether time.sleep has
\* run since the previous GET), the write of a file, the rate-limit pause, or
\* urlretrieve raising.
Event(e, at, paced) == [e |-> e, at |-> at, paced |-> paced]

\* T is the tile store, p the value of paused, o what urlretrieve does.
\* A file holds the body served for its URL, whole or truncated.
_fetch_remote_tile(T, p, xtile, ytile, zoom, o) ==
    LET url == _get_tile_url(xtile, ytile, zoom)
        path == _get_tile_path(xtile, ytile, zoom)
        get == Event("GET", url, p)
    IN  CASE o = "ok" ->
               [ok |-> TRUE, val |-> path,
                tiles |-> (path :> [data |-> url, whole |-> TRUE]) @@ T,
                paused |-> FALSE,
                events |-> <<get, Event("WRITE", path, FALSE)>>]
          [] o = "partial" ->
               [ok |-> FALSE, val |-> "ContentTooShortError",
                tiles |-> (path :> [data |-> url, whole |-> FALSE]) @@ T,
                paused |-> FALSE,
                events |-> <<get, Event("WRITE", path, FALSE),
                             Event("ERROR", url, FALSE)>>]
          [] o = "fail" ->
               [ok |-> FALSE, val |-> "URLError",
                tiles |-> T, paused |-> FALSE,
                events |-> <<get, Event("ERROR", url, FALSE)>>]

\* Mutant of _fetch_tile: the tile store is not consulted.
_fetch_tile_always(T, p, xtile, ytile, zoom, o) ==
    LET path == _get_tile_path(xtile, ytile, zoom)
        r == _fetch_remote_tile(T, p, xtile, ytile, zoom, o)
    IN  IF ~r.ok THEN r
        ELSE [r EXCEPT !.paused = TRUE,
                       !.events = @ \o <<Event("PAUSE", path, TRUE)>>]

\* Mutant of _fetch_tile: a failed fetch is tried a second time.
_fetch_tile_retry(T, p, xtile, ytile, zoom, o) ==
    LET path == _get_tile_path(xtile, ytile, zoom)
    IN  IF path \notin DOMAIN T
        THEN LET r == _fetch_remote_tile(T, p, xtile, ytile, zoom, o)
                 again == _fetch_remote_tile(T, FALSE, xtile, ytile, zoom, "ok")
             IN  IF ~r.ok
                 THEN [again EXCEPT !.paused = TRUE,
                                    !.events = r.events \o @
                                        \o <<Event("PAUSE", path, TRUE)>>]
                 ELSE [r EXCEPT !.paused = TRUE,
                                !.events = @ \o <<Event("PAUSE", path, TRUE)>>]
        ELSE [ok |-> TRUE, val |-> path, tiles |-> T, paused |-> p,
              events |-> <<>>]

_fetch_tile(T, p, xtile, ytile, zoom, o) ==
    LET path == _get_tile_path(xtile, ytile, zoom)
    IN  IF path \notin DOMAIN T
        THEN LET Slept(r) ==
                     IF ~r.ok THEN r
                     ELSE [r EXCEPT !.paused = TRUE,
                                    !.events = @ \o <<Event("PAUSE", path, TRUE)>>]
             IN  The({Slept(r) : r \in {_fetch_remote_tile(T, p, xtile, ytile, zoom, o)}})
        ELSE [ok |-> TRUE, val |-> path, tiles |-> T, paused |-> p,
              events |-> <<>>]

\* returns (min_lat, max_lat, min_lon, max_lon)
calculate_bounding_box(first_point, second_point) ==
    <<Min2(first_point[1], second_point[1]), Max2(first_point[1], second_point[1]),
      Min2(first_point[2], second_point[2]), Max2(first_point[2], second_point[2])>>

\* the tile side in pixels
TileSize == 256

\* Mutant of TileOrder: the loops are nested the other way round.
TileOrderRowMajor(min_x, max_x, min_y, max_y) ==
    LET xs == Range(min_x, max_x)
        ys == Range(min_y, max_y)
    IN  [i \in 1..(Len(xs) * Len(ys)) |->
            <<xs[((i - 1) % Len(xs)) + 1], ys[((i - 1) \div Len(xs)) + 1]>>]

\* The order in which the nested loops of _create_combined_image visit the
\* tiles: for xtile in range(min_x, max_x + 1): for ytile in range(min_y, max_y + 1)
TileOrder(min_x, max_x, min_y, max_y) ==
    LET xs == Range(min_x, max_x)
        ys == Range(min_y, max_y)
    IN  [i \in 1..(Len(xs) * Len(ys)) |->
            <<xs[((i - 1) \div Len(ys)) + 1], ys[((i - 1) % Len(ys)) + 1]>>]

\* The loop body of _create_combined_image from tile number i of order on.
\* acc carries the stores, the surface and the log; failAt and kind say which
\* GET of this call fails and how (failAt = 0: none does).
RECURSIVE FetchLoop(_, _, _, _, _, _)
FetchLoop(order, i, acc, zoom, failAt, kind) ==
    LET Loop(tile_order, a) ==
            IF i > Len(tile_order) THEN a
            ELSE LET xtile == tile_order[i][1]
                     ytile == tile_order[i][2]
                     Body(f) ==
                         LET called == [a EXCEPT !.tiles = f.tiles,
                                                 !.paused = f.paused,
                                                 !.events = @ \o f.events,
                                                 !.fetched = Append(@, <<xtile, ytile>>)]
                         IN  IF ~f.ok THEN [called EXCEPT !.ok = FALSE, !.val = f.val]
                             \* pygame.image.load of a truncated file raises
                             \* pygame.error
                             ELSE IF ~f.tiles[f.val].whole
                                  THEN [called EXCEPT !.ok = FALSE,
                                                      !.val = "pygame.error"]
                             ELSE LET x_off == TileSize * (xtile - tile_order[1][1])
                                      y_off == TileSize * (ytile - tile_order[1][2])
                                      tile == f.tiles[f.val].data
                                  IN  FetchLoop(tile_order, i + 1,
                                                [called EXCEPT
                                                    !.blits = @ \cup {<<x_off, y_off, tile>>}],
                                                zoom, failAt, kind)
                 IN  The({Body(f) :
                            f \in {_fetch_tile(a.tiles, a.paused, xtile, ytile, zoom,
                                               IF i = failAt THEN kind ELSE "ok")}})
    IN  The({Loop(tile_order, a) : tile_order \in {order}, a \in {acc}})

\* On success val is (combined_image, (new_min_lat, new_max_lat, new_min_lon,
\* new_max_lon)); a surface is its size and what was blitted where.
_create_combined_image(T, p, min_lat, max_lat, min_lon, max_lon, zoom, failAt, kind) ==
    LET min_xy == _degrees_to_tile(max_lat, min_lon, zoom).val
        max_xy == _degrees_to_tile(min_lat, max_lon, zoom).val
        min_x == min_xy[1]
        min_y == min_xy[2]
        max_x == max_xy[1]
        max_y == max_xy[2]
        new_tl == _tile_to_degrees(min_x, min_y, zoom)
        new_br == _tile_to_degrees(max_x + 1, max_y + 1, zoom)
        pix_width == (max_x - min_x + 1) * TileSize
        pix_height == (max_y - min_y + 1) * TileSize
        Return(loop) ==
            IF ~loop.ok THEN loop
            ELSE [loop EXCEPT !.val =
                     <<[size |-> <<pix_width, pix_height>>, blits |-> loop.blits],
                       <<new_br[1], new_tl[1], new_tl[2], new_br[2]>>>>]
    IN  The({Return(loop) :
               loop \in {FetchLoop(TileOrder(min_x, max_x, min_y, max_y), 1,
                                   [ok |-> TRUE, val |-> "", tiles |-> T,
                                    paused |-> p, events |-> <<>>,
                                    fetched |-> <<>>, blits |-> {}],
                                   zoom, failAt, kind)}})

\* Mutant of _write_cached_image: the surface is not saved.
_write_cached_image_skip(I, image, path) == I

\* pygame.image.save(image, path) on the image store I
_write_cached_image(I, image, path) == (path :> image) @@ I

\* Mutant of get_combined_image: a build that a tile stopped is saved with the
\* tiles it has.
get_combined_image_saveanyway(T, I, p, name, first_point, second_point, zoom, failAt, kind) ==
    LET bb == calculate_bounding_box(first_point, second_point)
        Miss(image_path, c) ==
            LET image == IF c.ok THEN c.val[1]
                         ELSE [size |-> <<0, 0>>, blits |-> c.blits]
            IN  [ok |-> TRUE, val |-> IF c.ok THEN c.val ELSE <<image, bb>>,
                 hit |-> FALSE, tiles |-> c.tiles,
                 images |-> _write_cached_image(I, image, image_path),
                 paused |-> c.paused,
                 events |-> c.events \o <<Event("SAVE", image_path, c.paused)>>,
                 fetched |-> c.fetched, path |-> image_path]
        Body(image_path) ==
            IF ~image_path.ok
            THEN [ok |-> FALSE, val |-> image_path.val, hit |-> FALSE,
                  tiles |-> T, images |-> I, paused |-> p,
                  events |-> <<>>, fetched |-> <<>>, path |-> <<>>]
            ELSE IF image_path.val \notin DOMAIN I
                 THEN The({Miss(image_path.val, c) :
                             c \in {_create_combined_image(T, p, bb[1], bb[2], bb[3],
                                                           bb[4], zoom, failAt, kind)}})
                 ELSE [ok |-> TRUE, val |-> <<I[image_path.val], bb>>, hit |-> TRUE,
                       tiles |-> T, images |-> I, paused |-> p,
                       events |-> <<>>, fetched |-> <<>>, path |-> image_path.val]
    IN  The({Body(image_path) :
               image_path \in {_get_image_path(name, bb[1], bb[2], bb[3], bb[4], zoom)}})

\* The whole call on tile store T, image store I and pause state p.  val is
\* the returned (surface, bounding box) or the exception raised; hit says
\* that the image store held the image.
get_combined_image(T, I, p, name, first_point, second_point, zoom, failAt, kind) ==
    LET bb == calculate_bounding_box(first_point, second_point)
        Miss(image_path, c) ==
            IF ~c.ok
            THEN [ok |-> FALSE, val |-> c.val, hit |-> FALSE,
                  tiles |-> c.tiles, images |-> I, paused |-> c.paused,
                  events |-> c.events, fetched |-> c.fetched,
                  path |-> image_path]
            ELSE [ok |-> TRUE, val |-> c.val, hit |-> FALSE,
                  tiles |-> c.tiles,
                  images |-> _write_cached_image(I, c.val[1], image_path),
                  paused |-> c.paused,
                  events |-> c.events \o <<Event("SAVE", image_path, c.paused)>>,
                  fetched |-> c.fetched, path |-> image_path]
        Body(image_path) ==
            IF ~image_path.ok
            THEN [ok |-> FALSE, val |-> image_path.val, hit |-> FALSE,
                  tiles |-> T, images |-> I, paused |-> p,
                  events |-> <<>>, fetched |-> <<>>, path |-> <<>>]
            ELSE IF image_path.val \notin DOMAIN I
                 THEN The({Miss(image_path.val, c) :
                             c \in {_create_combined_image(T, p, bb[1], bb[2], bb[3],
                                                           bb[4], zoom, failAt, kind)}})
                 ELSE [ok |-> TRUE, val |-> <<I[image_path.val], bb>>, hit |-> TRUE,
                       tiles |-> T, images |-> I, paused |-> p,
                       events |-> <<>>, fetched |-> <<>>, path |-> image_path.val]
    IN  The({Body(image_path) :
               image_path \in {_get_image_path(name, bb[1], bb[2], bb[3], bb[4], zoom)}})

----------------------------------------------------------------------------
(* Maps.py: Map *)

\* self.max_latitude, self.min_latitude, self.max_longitude and
\* self.min_longitude, in millidegrees
max_latitude == 85051

min_latitude == -85051

max_longitude == 180000

min_longitude == -180000

clip(to_clip, min_clip, max_clip) == Min2(Max2(to_clip, min_clip), max_clip)

\* math.ceiling(tile_size * math.pow(2, zoom)): the math module has no
\* attribute ceiling, so evaluating the expression raises AttributeError
map_size(zoom, tile_size) == [ok |-> FALSE, val |-> "AttributeError"]

\* Mutant of QuadDigit: the x bit and the y bit change places.
QuadDigitSwapped(tilex, tiley, mask) ==
    (IF (tilex \div mask) % 2 # 0 THEN 2 ELSE 0)
      + (IF (tiley \div mask) % 2 # 0 THEN 1 ELSE 0)

\* digit of the loop body of tilexy_to_quadkey for one mask
QuadDigit(tilex, tiley, mask) ==
    (IF (tilex \div mask) % 2 # 0 THEN 1 ELSE 0)
      + (IF (tiley \div mask) % 2 # 0 THEN 2 ELSE 0)

\* the loop of tilexy_to_quadkey from i down to 1
RECURSIVE QuadkeyLoop(_, _, _)
QuadkeyLoop(tilex, tiley, i) ==
    IF i <= 0 THEN <<>>
    ELSE <<DigitChar(QuadDigit(tilex, tiley, Pow2(i - 1)))>>
           \o QuadkeyLoop(tilex, tiley, i - 1)

tilexy_to_quadkey(tilex, tiley, zoom) == QuadkeyLoop(tilex, tiley, zoom)

\* the loop of quadkey_to_tilexy from i down to 1; t is (tilex, tiley)
RECURSIVE TilexyLoop(_, _, _)
TilexyLoop(quadkey, i, t) ==
    IF i <= 0 THEN t
    ELSE LET zoom == Len(quadkey)
             mask == Pow2(i - 1)
             c == quadkey[zoom - i + 1]
         IN  TilexyLoop(quadkey, i - 1,
                 CASE c = "1" -> <<t[1] + mask, t[2]>>
                   [] c = "2" -> <<t[1], t[2] + mask>>
                   [] c = "3" -> <<t[1] + mask, t[2] + mask>>
                   [] OTHER -> t)

\* returns (tilex, tiley, zoom)
quadkey_to_tilexy(quadkey) ==
    LET t == TilexyLoop(quadkey, Len(quadkey), <<0, 0>>)
    IN  <<t[1], t[2], Len(quadkey)>>

\* 0.5 - math.log((1 + sin_latitude) / (1 - sin_latitude)) / (4 * math.pi),
\* in millionths, for a clipped latitude
MercatorY(latitude) ==
    CASE latitude =  85051 -> 0
      [] latitude =  60000 -> 290400
      [] latitude =  50000 -> 339145
      [] latitude =      0 -> 500000
      [] latitude = -60000 -> 709600
      [] latitude = -85051 -> 1000000

\* position is (longitude, latitude); pixels are computed in thousandths
position_to_tilexy(position, zoom, tile_size) ==
    LET latitude == clip(position[2], min_latitude, max_latitude)
        longitude == clip(position[1], min_longitude, max_longitude)
        mapsize == map_size(zoom, tile_size)
    IN  IF ~mapsize.ok THEN mapsize
        ELSE LET xpix == ((longitude + 180000) * mapsize.val) \div 360 + 500
                 ypix == (MercatorY(latitude) * mapsize.val) \div 1000 + 500
                 top == (mapsize.val - 1) * 1000
             IN  [ok |-> TRUE,
                  val |-> <<clip(xpix, 0, top) \div (tile_size * 1000),
                            clip(ypix, 0, top) \div (tile_size * 1000)>>]

\* 90 - 360 * math.atan(math.exp(-y * 2 * math.pi)) / math.pi in millidegrees,
\* for the distance 0.5 - y from the top edge of the map in millionths
InverseMercator(fromtop) ==
    CASE fromtop = 290460 ->  59989
      [] fromtop = 290521 ->  59978
      [] fromtop = 290644 ->  59956
      [] fromtop = 290887 ->  59912
      [] fromtop = 291375 ->  59824
      [] fromtop = 292351 ->  59647
      [] fromtop = 500061 ->    -22
      [] fromtop = 500122 ->    -44
      [] fromtop = 500244 ->    -88
      [] fromtop = 500488 ->   -176
      [] fromtop = 500976 ->   -351
      [] fromtop = 501953 ->   -703
      [] fromtop = 709661 -> -60011
      [] fromtop = 709721 -> -60022
      [] fromtop = 709843 -> -60044
      [] fromtop = 710087 -> -60087
      [] fromtop = 710576 -> -60175
      [] fromtop = 711550 -> -60349

\* pixel is (x, y) in thousandths of a pixel; returns (longitude, latitude)
pixel_to_position(pixel, zoom, tile_size) ==
    LET mapsize == map_size(zoom, tile_size)
    IN  IF ~mapsize.ok THEN mapsize
        ELSE LET top == (mapsize.val - 1) * 1000
                 x == (clip(pixel[1], 0, top) * 360) \div mapsize.val - 180000
                 fromtop == (clip(pixel[2], 0, top) * 1000) \div mapsize.val
             IN  [ok |-> TRUE, val |-> <<x, InverseMercator(fromtop)>>]

\* position is (longitude, latitude); returns (x, y) in thousandths of a
\* pixel
position_to_pixel(position, zoom, tile_size) ==
    LET latitude == clip(position[2], min_latitude, max_latitude)
        longitude == clip(position[1], min_longitude, max_longitude)
        mapsize == map_size(zoom, tile_size)
    IN  IF ~mapsize.ok THEN mapsize
        ELSE LET xpix == ((longitude + 180000) * mapsize.val) \div 360 + 500
                 ypix == (MercatorY(latitude) * mapsize.val) \div 1000 + 500
                 top == (mapsize.val - 1) * 1000
             IN  [ok |-> TRUE,
                  val |-> <<clip(xpix, 0, top), clip(ypix, 0, top)>>]

\* The nested loops of quadkey_from_bounds from the k-th x on.  j is what is
\* left of the iterator over the y range: the inner loop drains it.
RECURSIVE KeysLoop(_, _, _, _, _)
KeysLoop(xs, k, j, keys, zoom) ==
    IF k > Len(xs) THEN keys
    ELSE KeysLoop(xs, k + 1, <<>>,
                  keys \o [m \in 1..Len(j) |-> tilexy_to_quadkey(xs[k], j[m], zoom)],
                  zoom)

\* bounds is [west, south, east, north]
quadkey_from_bounds(bounds, zoom, tile_size) ==
    IF Len(bounds) >= 4
    THEN LET topleft == position_to_tilexy(<<bounds[4], bounds[1]>>, zoom, tile_size)
             bottomright == position_to_tilexy(<<bounds[2], bounds[3]>>, zoom, tile_size)
         IN  IF ~topleft.ok THEN topleft
             ELSE IF ~bottomright.ok THEN bottomright
             ELSE [ok |-> TRUE,
                   val |-> KeysLoop(Range(topleft.val[1], bottomright.val[1]), 1,
                                    Range(topleft.val[2], bottomright.val[2]),
                                    <<>>, zoom)]
    ELSE [ok |-> TRUE, val |-> <<>>]

\* math.log(math.sin(lat * math.pi / 180) + 1) / math.cos(lat * math.pi / 180)
\* in millionths; at -90 degrees the sine is -1 and math.log(0) raises
Ry(lat) ==
    CASE lat =  60000 -> [ok |-> TRUE, val |->  1247621]
      [] lat =  50000 -> [ok |-> TRUE, val |->   884806]
      [] lat =      0 -> [ok |-> TRUE, val |->        0]
      [] lat = -60000 -> [ok |-> TRUE, val |-> -4020210]
      [] lat = -90000 -> [ok |-> FALSE, val |-> "ValueError"]

\* math.atan(math.sin(ryc)) * 180 / math.pi in millidegrees, ryc in millionths
AtanSin(ryc) ==
    CASE ryc =   623810 ->  30291
      [] ryc =   442403 ->  23176
      [] ryc =        0 ->      0
      [] ryc = -1386294 -> -44510

\* math.log(math.tan(math.pi * (0.25 + lat / 360))) in millionths
LogTan(lat) ==
    CASE lat =  60000 -> 1316958
      [] lat =  50000 -> 1010683
      [] lat =  30291 ->  555171
      [] lat =  23176 ->  416009
      [] lat =      0 ->       0
      [] lat = -44510 -> -869321

\* int part of math.log(num / den, 2) for num > 0 and den > 0
RECURSIVE Log2Floor(_, _)
Log2Floor(num, den) ==
    IF num >= 2 * den THEN 1 + Log2Floor(num, 2 * den)
    ELSE IF num < den THEN Log2Floor(2 * num, den) - 1
    ELSE 0

\* the constant 40.74366543152561 of zoom_factor, in thousandths
zoom_scale == 40744

\* Mutant of bounds_deltax_center: the box is never taken to cross the
\* antimeridian.
bounds_deltax_center_nowrap(bounds) ==
    <<bounds[3] - bounds[1], (bounds[3] + bounds[1]) \div 2>>

\* bounds_deltax and center_lon of best_map_view, in millidegrees
bounds_deltax_center(bounds) ==
    IF bounds[3] > bounds[1]
    THEN <<bounds[3] - bounds[1], (bounds[3] + bounds[1]) \div 2>>
    ELSE <<360000 - (bounds[1] - bounds[3]),
           (((bounds[3] + bounds[1]) \div 2 + 360000) % 360000) - 180000>>

\* best_map_view from the first use of the components of bounds on.
\* Resolutions are in millionths of a degree per pixel; of the zoom the int
\* part is kept.
best_map_view_box(bounds, map_width, map_height, padding, tile_size) ==
    LET dc == bounds_deltax_center(bounds)
        Raise(e) == [ok |-> FALSE, val |-> e, bounds_deltax |-> dc[1]]
        ry1 == Ry(bounds[2])
        ry2 == Ry(bounds[4])
    IN  IF ~ry1.ok THEN Raise(ry1.val)
        ELSE IF ~ry2.ok THEN Raise(ry2.val)
        ELSE LET ryc == Trunc(ry1.val + ry2.val, 2)
                 center_lat == AtanSin(ryc)
             IN  IF map_width - padding * 2 = 0 THEN Raise("ZeroDivisionError")
                 ELSE LET h_reso == Trunc(dc[1] * 1000, map_width - padding * 2)
                          dv == Trunc(LogTan(bounds[4]) - LogTan(center_lat), 1000)
                      IN  IF dv = 0 THEN Raise("ZeroDivisionError")
                          ELSE IF map_height - padding * 2 = 0
                               THEN Raise("ZeroDivisionError")
                          ELSE LET v_reso ==
                                       Trunc(Trunc(720 * zoom_scale, tile_size) * dv,
                                             map_height - padding * 2)
                                   reso == Max2(h_reso, v_reso)
                               IN  IF reso = 0 THEN Raise("ZeroDivisionError")
                                   ELSE IF reso < 0 THEN Raise("ValueError")
                                   ELSE [ok |-> TRUE,
                                         val |-> <<center_lat, dc[2],
                                                   Log2Floor(360000000,
                                                             reso * tile_size)>>,
                                         bounds_deltax |-> dc[1]]

\* Mutant of best_map_view: the length of bounds is not looked at, and
\* reading a component that is not there raises.
best_map_view_unguarded(bounds, map_width, map_height, padding, tile_size) ==
    IF Len(bounds) < 4
    THEN [ok |-> FALSE, val |-> "IndexError", bounds_deltax |-> "unbound"]
    ELSE best_map_view_box(bounds, map_width, map_height, padding, tile_size)

\* bounds is [west, south, east, north]; returns (center_lat, center_lon, zoom)
best_map_view(bounds, map_width, map_height, padding, tile_size) ==
    IF Len(bounds) < 4
    THEN [ok |-> TRUE, val |-> <<0, 0, 1>>, bounds_deltax |-> "unbound"]
    ELSE best_map_view_box(bounds, map_width, map_height, padding, tile_size)

\* bounding boxes given to quadkey_from_bounds, in millidegrees
BoundsSamples == { <<>>, <<-100000>>, <<-100000, -60000, 100000>>,
                   <<-100000, -60000, 100000, 60000>>,
                   <<0, 0, 60000, 50000>>,
                   <<-60000, -60000, 60000, 60000>> }

\* positions (longitude, latitude) given to position_to_pixel, in
\* millidegrees
PositionSamples == { <<-100000, 60000>>, <<0, 0>>, <<100000, -60000>> }

\* bounding boxes given to best_map_view, in millidegrees
ViewBounds == { <<>>, <<-100000>>, <<-100000, -60000>>,
                <<-100000, -60000, 100000>>,
                <<-100000, -60000, 100000, 60000>>,
                <<0, 0, 60000, 50000>>,
                <<170000, -60000, -170000, 60000>>,
                <<170000, 0, -150000, 60000>>,
                <<0, -90000, 60000, 0>>,
                <<0, 0, 60000, 0>> }

\* (map_width, map_height, padding) given to best_map_view, in pixels
ViewSamples == { <<800, 600, 0>>, <<800, 600, 50>>, <<100, 600, 50>>,
                 <<800, 100, 50>>, <<800, 60, 50>> }

\* tile sizes given to the Map functions
TileSizes == {TileSize, 2 * TileSize}

----------------------------------------------------------------------------
(* The calls as actions *)

\* val is what a call returned, or the one-element tuple of the exception it
\* raised
NoCall == [op |-> "none", name |-> <<>>, first_point |-> <<>>,
           second_point |-> <<>>, zoom |-> 0, tile |-> <<>>, ok |-> TRUE,
           hit |-> FALSE, val |-> <<>>, events |-> <<>>, fetched |-> <<>>,
           path |-> <<>>]

NoMapCall == [op |-> "none", args |-> <<>>, ok |-> TRUE, val |-> <<>>]

\* the (topleft, bottomright) tiles of a request, or the exception
RangeOf(first_point, second_point, zoom) ==
    LET bb == calculate_bounding_box(first_point, second_point)
        tl == _degrees_to_tile(bb[2], bb[3], zoom)
        br == _degrees_to_tile(bb[1], bb[4], zoom)
    IN  IF ~tl.ok THEN tl
        ELSE IF ~br.ok THEN br
        ELSE [ok |-> TRUE, val |-> <<tl.val, br.val>>]

\* the tiles a request for these corners at this zoom would visit
OrderOf(first_point, second_point, zoom) ==
    LET bb == calculate_bounding_box(first_point, second_point)
        tl == _degrees_to_tile(bb[2], bb[3], zoom)
        br == _degrees_to_tile(bb[1], bb[4], zoom)
    IN  IF tl.ok /\ br.ok
        THEN TileOrder(tl.val[1], br.val[1], tl.val[2], br.val[2])
        ELSE <<>>

\* osm.get_combined_image(name, first_point, second_point, zoom)
GetCombinedImage(name, first_point, second_point, zoom, failAt, kind) ==
    /\ ncalls < MaxCalls
    /\ \E r \in {get_combined_image(tiles, images, paused, name, first_point,
                                   second_point, zoom, failAt, kind)} :
           /\ tiles' = r.tiles
           /\ images' = r.images
           /\ paused' = r.paused
           /\ last' = [NoCall EXCEPT !.op = "get_combined_image", !.name = name,
                          !.first_point = first_point,
                          !.second_point = second_point, !.zoom = zoom,
                          !.ok = r.ok, !.hit = r.hit,
                          !.val = IF r.ok THEN r.val ELSE <<r.val>>,
                          !.events = r.events, !.fetched = r.fetched,
                          !.path = r.path]
           /\ built' = IF r.ok /\ ~r.hit
                       THEN (r.path :> [name |-> name, zoom |-> zoom,
                                        range |-> RangeOf(first_point, second_point, zoom),
                                        val |-> r.val]) @@ built
                       ELSE built
    /\ prev' = last
    /\ ncalls' = ncalls + 1
    /\ UNCHANGED mapcall

\* osm._fetch_tile(xtile, ytile, zoom)
FetchTile(xtile, ytile, zoom, o) ==
    /\ ncalls < MaxCalls
    /\ \E r \in {_fetch_tile(tiles, paused, xtile, ytile, zoom, o)} :
           /\ tiles' = r.tiles
           /\ paused' = r.paused
           /\ last' = [NoCall EXCEPT !.op = "_fetch_tile",
                          !.tile = <<xtile, ytile>>, !.zoom = zoom,
                          !.ok = r.ok, !.val = IF r.ok THEN r.val ELSE <<r.val>>,
                          !.events = r.events,
                          !.hit = (_get_tile_path(xtile, ytile, zoom) \in DOMAIN tiles)]
    /\ prev' = last
    /\ ncalls' = ncalls + 1
    /\ UNCHANGED <<images, built, mapcall>>

Init ==
    /\ tiles = <<>>
    /\ images = <<>>
    /\ paused = TRUE
    /\ ncalls = 0
    /\ last = NoCall
    /\ prev = NoCall
    /\ built = <<>>
    /\ mapcall = NoMapCall

Next ==
    \/ \E name \in Names, c \in Corners, zoom \in Zooms :
         \E failAt \in 0..Len(OrderOf(c[1], c[2], zoom)),
            kind \in FetchOutcomes \ {"ok"} :
            GetCombinedImage(name, c[1], c[2], zoom, failAt, kind)
    \/ \E zoom \in Zooms :
         \E xtile \in 0..(Pow2(zoom) - 1), ytile \in 0..(Pow2(zoom) - 1),
            o \in FetchOutcomes :
            FetchTile(xtile, ytile, zoom, o)

Spec == Init /\ [][Next]_vars

\* the corners of the request that is repeated: one tile at zoom 0, four
\* tiles at zoom 1
RetryCorners == << <<60000, -100000>>, <<-60000, 100000>> >>

\* the name of the request that is repeated
RetryName == <<"home">>

\* osm.get_combined_image(name, first_point, second_point, zoom), called any
\* number of times
RepeatCombinedImage(name, first_point, second_point, zoom, failAt, kind) ==
    /\ \E r \in {get_combined_image(tiles, images, paused, name, first_point,
                                   second_point, zoom, failAt, kind)} :
           /\ tiles' = r.tiles
           /\ images' = r.images
           /\ paused' = r.paused
           /\ last' = [NoCall EXCEPT !.op = "get_combined_image", !.name = name,
                          !.first_point = first_point,
                          !.second_point = second_point, !.zoom = zoom,
                          !.ok = r.ok, !.hit = r.hit,
                          !.val = IF r.ok THEN r.val ELSE <<r.val>>,
                          !.events = r.events, !.fetched = r.fetched,
                          !.path = r.path]
           /\ built' = IF r.ok /\ ~r.hit
                       THEN (r.path :> [name |-> name, zoom |-> zoom,
                                        range |-> RangeOf(first_point, second_point, zoom),
                                        val |-> r.val]) @@ built
                       ELSE built
    /\ prev' = last
    /\ UNCHANGED <<ncalls, mapcall>>

NextRetry ==
    \E zoom \in Zooms :
       \E failAt \in 0..Len(OrderOf(RetryCorners[1], RetryCorners[2], zoom)),
          kind \in FetchOutcomes \ {"ok"} :
          RepeatCombinedImage(RetryName, RetryCorners[1], RetryCorners[2], zoom,
                              failAt, kind)

\* The caller repeats each request for ever, and of each request there is
\* again and again a call in which every GET that is made succeeds.
FairRetry ==
    \A zoom \in Zooms :
       WF_vars(RepeatCombinedImage(RetryName, RetryCorners[1], RetryCorners[2], zoom,
                                   0, "fail"))

SpecRetry == Init /\ [][NextRetry]_vars /\ FairRetry

\* Map.quadkey_to_tilexy(Map.tilexy_to_quadkey(tilex, tiley, zoom))
QuadkeyRoundTrip(tilex, tiley, zoom) ==
    /\ \E quadkey \in {tilexy_to_quadkey(tilex, tiley, zoom)} :
          mapcall' = [op |-> "quadkey_round_trip", args |-> <<tilex, tiley, zoom>>,
                      ok |-> TRUE,
                      val |-> <<quadkey, quadkey_to_tilexy(quadkey)>>]
    /\ UNCHANGED cachevars

\* Map.quadkey_from_bounds(bounds, zoom, tile_size)
QuadkeyFromBounds(bounds, zoom, tile_size) ==
    /\ \E r \in {quadkey_from_bounds(bounds, zoom, tile_size)} :
          mapcall' = [op |-> "quadkey_from_bounds",
                      args |-> <<bounds, zoom, tile_size>>,
                      ok |-> r.ok, val |-> r.val]
    /\ UNCHANGED cachevars

\* Map.map_size(zoom, tile_size)
MapSize(zoom, tile_size) ==
    /\ \E r \in {map_size(zoom, tile_size)} :
          mapcall' = [op |-> "map_size", args |-> <<zoom, tile_size>>,
                      ok |-> r.ok, val |-> r.val]
    /\ UNCHANGED cachevars

\* Map.pixel_to_position(Map.position_to_pixel(position, zoom, tile_size),
\* zoom, tile_size)
PixelRoundTrip(position, zoom, tile_size) ==
    /\ \E pixel \in {position_to_pixel(position, zoom, tile_size)} :
          mapcall' = [op |-> "pixel_round_trip",
                      args |-> <<position, zoom, tile_size>>,
                      ok |-> pixel.ok
                               /\ pixel_to_position(pixel.val, zoom, tile_size).ok,
                      val |-> IF pixel.ok
                              THEN pixel_to_position(pixel.val, zoom, tile_size).val
                              ELSE pixel.val]
    /\ UNCHANGED cachevars

\* Map.best_map_view(bounds, map_width, map_height, padding, tile_size)
BestMapView(bounds, map_width, map_height, padding, tile_size) ==
    /\ \E r \in {best_map_view(bounds, map_width, map_height, padding, tile_size)} :
          mapcall' = [op |-> "best_map_view",
                      args |-> <<bounds, map_width, map_height, padding, tile_size>>,
                      ok |-> r.ok, val |-> r.val,
                      bounds_deltax |-> r.bounds_deltax]
    /\ UNCHANGED cachevars

NextMap ==
    \/ \E zoom \in 0..MaxQuadZoom :
         \E tilex \in 0..(Pow2(zoom) - 1), tiley \in 0..(Pow2(zoom) - 1) :
            QuadkeyRoundTrip(tilex, tiley, zoom)
    \/ \E bounds \in BoundsSamples, zoom \in 0..MaxQuadZoom :
         QuadkeyFromBounds(bounds, zoom, TileSize)
    \/ \E zoom \in 0..MaxQuadZoom, tile_size \in TileSizes :
         MapSize(zoom, tile_size)
    \/ \E position \in PositionSamples, zoom \in 0..MaxQuadZoom,
            tile_size \in TileSizes :
         PixelRoundTrip(position, zoom, tile_size)
    \/ \E bounds \in ViewBounds, view \in ViewSamples, tile_size \in TileSizes :
         BestMapView(bounds, view[1], view[2], view[3], tile_size)

SpecMap == Init /\ [][NextMap]_vars

----------------------------------------------------------------------------
(* Vocabulary of the properties *)

IsImageCall(c) == c.op = "get_combined_image"

IsTileCall(c) == c.op = "_fetch_tile"

SameRequest(a, b) ==
    /\ a.name = b.name
    /\ a.first_point = b.first_point
    /\ a.second_point = b.second_point
    /\ a.zoom = b.zoom

\* the events of one kind in a log
EventsOf(events, e) == {k \in 1..Len(events) : events[k].e = e}

\* the corner tiles of an image call
TilesOf(c) == RangeOf(c.first_point, c.second_point, c.zoom)

\* an image call that found no composed image and started a build
IsMiss(c) == IsImageCall(c) /\ TilesOf(c).ok /\ ~c.hit

\* the members of a sequence
SeqSet(s) == {s[i] : i \in 1..Len(s)}

IsPrefix(s, t) == Len(s) <= Len(t) /\ \A k \in 1..Len(s) : s[k] = t[k]

ValidTile(t, zoom) ==
    /\ 0 <= t[1] /\ t[1] < Pow2(zoom)
    /\ 0 <= t[2] /\ t[2] < Pow2(zoom)

----------------------------------------------------------------------------
(* C1 *)

\* C1: when get_combined_image is called twice in a row with the same name,
\* corner points and zoom and the first call succeeds, the second call
\* succeeds too, issues no network GET, and returns the raster that the image
\* store holds for the request, which is the raster the first call returned.
C1_RepeatedCallIsServedFromStore ==
    (IsImageCall(prev) /\ prev.ok /\ IsImageCall(last) /\ SameRequest(prev, last))
        => /\ last.ok
           /\ EventsOf(last.events, "GET") = {}
           /\ last.path = prev.path
           /\ last.path \in DOMAIN images
           /\ last.val[1] = images[last.path]
           /\ last.val[1] = prev.val[1]

\* a build of several tiles followed by the same request again
C1_Witness ==
    /\ IsImageCall(prev) /\ prev.ok /\ ~prev.hit
    /\ Len(prev.fetched) > 1
    /\ EventsOf(prev.events, "GET") # {}
    /\ IsImageCall(last) /\ SameRequest(prev, last) /\ last.ok

----------------------------------------------------------------------------
(* C2 *)

\* C2: when the network fetch of a tile fails during a build, the failure is
\* the last thing the call does (the build stops at that tile), the tile's URL
\* was requested once in the call, no composed image is saved for the request,
\* and the call ends in the fetch error instead of a raster.
C2_FetchFailureAbortsBuild ==
    (IsImageCall(last) /\ EventsOf(last.events, "ERROR") # {})
        => /\ EventsOf(last.events, "ERROR") = {Len(last.events)}
           /\ LET url == last.events[Len(last.events)].at
                  at == last.fetched[Len(last.fetched)]
              IN  /\ url = _get_tile_url(at[1], at[2], last.zoom)
                  /\ Cardinality({k \in EventsOf(last.events, "GET") :
                                     last.events[k].at = url}) = 1
           /\ EventsOf(last.events, "SAVE") = {}
           /\ last.path \notin DOMAIN images
           /\ ~last.ok
           /\ last.val \in {<<"URLError">>, <<"ContentTooShortError">>}

\* a build whose third tile fails after two tiles were fetched
C2_Witness ==
    /\ IsImageCall(last)
    /\ EventsOf(last.events, "ERROR") # {}
    /\ Len(last.fetched) = 3
    /\ Cardinality(EventsOf(last.events, "GET")) = 3
    /\ Len(TileOrder(TilesOf(last).val[1][1], TilesOf(last).val[2][1],
                     TilesOf(last).val[1][2], TilesOf(last).val[2][2])) > 3

----------------------------------------------------------------------------
(* C3 *)

\* C3: when a build is followed by the same request again, the second call,
\* served from the image store, returns the bounding box that the build
\* returned (the box snapped to the tile extents).
C3_HitReturnsSnappedBox ==
    (IsImageCall(prev) /\ prev.ok /\ ~prev.hit
       /\ IsImageCall(last) /\ SameRequest(prev, last) /\ last.ok /\ last.hit)
        => last.val[2] = prev.val[2]

----------------------------------------------------------------------------
(* C4 *)

\* C4: an image call that follows a successful image call with the same name,
\* zoom and corner tiles is served from the file of the first (no GET, no
\* save), whatever its corner points; and a call served from the image store
\* is served the file that a request of its own name, zoom and corner tiles
\* built.
C4_CacheKeyIsNameTilesZoom ==
    /\ (IsImageCall(prev) /\ prev.ok /\ IsImageCall(last)
          /\ prev.name = last.name /\ prev.zoom = last.zoom
          /\ TilesOf(prev) = TilesOf(last))
         => /\ last.ok /\ last.hit
            /\ last.path = prev.path
            /\ EventsOf(last.events, "GET") = {}
            /\ EventsOf(last.events, "SAVE") = {}
    /\ (IsImageCall(last) /\ last.hit)
         => /\ last.path \in DOMAIN built
            /\ built[last.path].name = last.name
            /\ built[last.path].zoom = last.zoom
            /\ built[last.path].range = TilesOf(last)

\* a request served from the image built for other corner points of the same
\* tiles
C4_Witness ==
    /\ IsImageCall(prev) /\ prev.ok /\ ~prev.hit
    /\ IsImageCall(last) /\ last.hit
    /\ prev.name = last.name /\ prev.zoom = last.zoom
    /\ TilesOf(prev) = TilesOf(last)
    /\ prev.first_point # last.first_point
    /\ {prev.first_point, prev.second_point} # {last.first_point, last.second_point}

----------------------------------------------------------------------------
(* C5 *)

\* C5: _fetch_tile issues a GET exactly when the tile file is absent; a miss
\* that stores the tile does GET, write, pause in this order; a hit does
\* nothing; and in every call each GET comes after a pause that followed the
\* GET before it.
C5_EveryGetIsPaced ==
    /\ IsTileCall(last)
         => /\ last.hit <=> EventsOf(last.events, "GET") = {}
            /\ last.hit => last.events = <<>>
            /\ (~last.hit /\ last.ok)
                 => [k \in 1..Len(last.events) |-> last.events[k].e]
                      = <<"GET", "WRITE", "PAUSE">>
    /\ \A k \in EventsOf(last.events, "GET") : last.events[k].paced

----------------------------------------------------------------------------
(* C6 *)

\* C6: a call leaves every file of the tile store in place with the content
\* it had, and issues no GET for the URL of a tile whose file exists and
\* writes no such file.
C6_TileFilesAreNeverRewritten ==
    [][\A path \in DOMAIN tiles :
          /\ path \in DOMAIN tiles'
          /\ tiles'[path] = tiles[path]
          /\ \A k \in 1..Len(last'.events) :
                /\ last'.events[k].e = "GET" => last'.events[k].at # tiles[path].data
                /\ last'.events[k].e = "WRITE" => last'.events[k].at # path]_vars

\* a build that visits a tile the call before it stored, and fetches others
C6_Witness ==
    /\ IsImageCall(last)
    /\ EventsOf(last.events, "GET") # {}
    /\ \E k \in 1..Len(last.fetched) :
          \E j \in EventsOf(prev.events, "WRITE") :
             prev.events[j].at
                = _get_tile_path(last.fetched[k][1], last.fetched[k][2], last.zoom)

----------------------------------------------------------------------------
(* C7 *)

\* C7: for a bounding box of 4 components quadkey_from_bounds returns one
\* quadkey for each tile of the rectangle between the top-left and the
\* bottom-right tile of the box: (width * height) keys without duplicates.
C7_FullCrossProduct ==
    (mapcall.op = "quadkey_from_bounds" /\ Len(mapcall.args[1]) >= 4)
        => /\ mapcall.ok
           /\ LET bounds == mapcall.args[1]
                  zoom == mapcall.args[2]
                  topleft ==
                      position_to_tilexy(<<bounds[4], bounds[1]>>, zoom, mapcall.args[3]).val
                  bottomright ==
                      position_to_tilexy(<<bounds[2], bounds[3]>>, zoom, mapcall.args[3]).val
                  n == (bottomright[1] - topleft[1] + 1)
                         * (bottomright[2] - topleft[2] + 1)
              IN  /\ Len(mapcall.val) = n
                  /\ Cardinality(SeqSet(mapcall.val)) = n
                  /\ SeqSet(mapcall.val)
                       = {tilexy_to_quadkey(x, y, zoom) :
                             x \in topleft[1]..bottomright[1],
                             y \in topleft[2]..bottomright[2]}

----------------------------------------------------------------------------
(* C8 *)

\* C8: for a tile (x, y) of zoom level zoom, the quadkey of the tile has zoom
\* digits, each one of 0, 1, 2, 3, and quadkey_to_tilexy gives (x, y, zoom)
\* back from it.
C8_QuadkeyRoundTrip ==
    mapcall.op = "quadkey_round_trip"
        => LET quadkey == mapcall.val[1]
           IN  /\ mapcall.val[2] = mapcall.args
               /\ Len(quadkey) = mapcall.args[3]
               /\ \A k \in 1..Len(quadkey) : quadkey[k] \in {"0", "1", "2", "3"}

\* the tile (3, 5) of zoom 3, whose quadkey is 213
C8_Witness ==
    /\ mapcall.op = "quadkey_round_trip"
    /\ mapcall.args = <<3, 5, 3>>
    /\ mapcall.val[1] = <<"2", "1", "3">>

----------------------------------------------------------------------------
(* C9 *)

\* the tiles between two corner tiles, column by column
ColumnMajor(tl, br) ==
    LET h == br[2] - tl[2] + 1
        w == br[1] - tl[1] + 1
    IN  [i \in 1..(w * h) |-> <<tl[1] + ((i - 1) \div h), tl[2] + ((i - 1) % h)>>]

\* the tiles between two corner tiles, row by row
RowMajor(tl, br) ==
    LET h == br[2] - tl[2] + 1
        w == br[1] - tl[1] + 1
    IN  [i \in 1..(w * h) |-> <<tl[1] + ((i - 1) % w), tl[2] + ((i - 1) \div w)>>]

\* C9 as stated, for a build that no failure aborts: the build calls
\* _fetch_tile once for every tile of the range, row by row.
C9_FetchOrderRowMajor ==
    (IsMiss(last) /\ last.ok)
        => last.fetched = RowMajor(TilesOf(last).val[1], TilesOf(last).val[2])

\* C9 as amended: a build calls _fetch_tile column by column (all tiles of
\* column min_x from top to bottom, then the next column), each tile at most
\* once; a build that completes has called it for every tile of the range, a
\* build that is aborted for the tiles up to the one it fails on.
C9_FetchOrderColumnMajor ==
    IsMiss(last)
        => LET order == ColumnMajor(TilesOf(last).val[1], TilesOf(last).val[2])
           IN  /\ IsPrefix(last.fetched, order)
               /\ Len(last.fetched) >= 1
               /\ last.ok => last.fetched = order

\* a completed build of two columns of two tiles
C9_Witness ==
    /\ IsMiss(last) /\ last.ok
    /\ Len(last.fetched) = 4
    /\ last.fetched[2][1] = last.fetched[1][1]
    /\ last.fetched[2][2] = last.fetched[1][2] + 1
    /\ last.fetched[3][1] = last.fetched[1][1] + 1

----------------------------------------------------------------------------
(* C10 *)

\* C10: an image call accepts every pair of corner points, and the corner
\* tiles of its cache key and the tiles it asks _fetch_tile for all have
\* 0 <= x < 2^zoom and 0 <= y < 2^zoom.
C10_TileIndicesInRange ==
    IsImageCall(last)
        => /\ TilesOf(last).ok
           /\ ValidTile(TilesOf(last).val[1], last.zoom)
           /\ ValidTile(TilesOf(last).val[2], last.zoom)
           /\ \A k \in 1..Len(last.fetched) : ValidTile(last.fetched[k], last.zoom)

----------------------------------------------------------------------------
(* C11 *)

\* C11: map_size(zoom, tile_size) returns exactly tile_size * 2^zoom for
\* every integer zoom >= 0, without raising an error.
C11_MapSizeExact ==
    mapcall.op = "map_size"
        => /\ mapcall.ok
           /\ mapcall.val = mapcall.args[2] * Pow2(mapcall.args[1])

----------------------------------------------------------------------------
(* C12 *)

\* C12: for a position whose latitude is inside the Mercator range,
\* pixel_to_position(position_to_pixel(p, zoom, tile_size), zoom, tile_size)
\* gives p back, up to the resolution of the arithmetic (one millidegree
\* here), in longitude as well as in latitude.
C12_PixelRoundTrip ==
    mapcall.op = "pixel_round_trip"
        => /\ mapcall.ok
           /\ \A k \in 1..2 :
                 /\ mapcall.val[k] - mapcall.args[1][k] <= 1
                 /\ mapcall.args[1][k] - mapcall.val[k] <= 1

----------------------------------------------------------------------------
(* C13 *)

\* C13: best_map_view called with a bounding box of fewer than 4 components
\* returns the center (0, 0) and the zoom 1 for every map width, height,
\* padding and tile size, and never ends in an error.
C13_DegenerateBoxFallback ==
    (mapcall.op = "best_map_view" /\ Len(mapcall.args[1]) < 4)
        => /\ mapcall.ok
           /\ mapcall.val = <<0, 0, 1>>

\* a box of 3 components with a padding that takes the whole map width
C13_Witness ==
    /\ mapcall.op = "best_map_view"
    /\ Len(mapcall.args[1]) = 3
    /\ mapcall.args[2] - 2 * mapcall.args[4] = 0
    /\ mapcall.ok
    /\ mapcall.val = <<0, 0, 1>>

----------------------------------------------------------------------------
(* C14 *)

\* C14: for a box with west > east best_map_view uses the width
\* 360 - (west - east), and the center longitude it returns lies in
\* [-180, 180]; for a box with east > west it uses the width east - west and
\* returns the center longitude (east + west) / 2.
C14_AntimeridianWidthAndCenter ==
    (mapcall.op = "best_map_view" /\ Len(mapcall.args[1]) >= 4)
        => LET west == mapcall.args[1][1]
               east == mapcall.args[1][3]
           IN  /\ west > east
                    => /\ mapcall.bounds_deltax = 360000 - (west - east)
                       /\ mapcall.ok => /\ mapcall.val[2] >= -180000
                                        /\ mapcall.val[2] <= 180000
               /\ east > west
                    => /\ mapcall.bounds_deltax = east - west
                       /\ mapcall.ok => 2 * mapcall.val[2] = east + west

\* a box across the antimeridian for which a view was returned
C14_Witness ==
    /\ mapcall.op = "best_map_view"
    /\ Len(mapcall.args[1]) >= 4
    /\ mapcall.args[1][1] > mapcall.args[1][3]
    /\ mapcall.ok
    /\ mapcall.bounds_deltax = 40000
    /\ mapcall.val[2] = -170000

----------------------------------------------------------------------------
(* C15 *)

\* C15: in every state reached by calls of get_combined_image, those that
\* stop part-way included, an image in the image store has every tile of its
\* range (topleft.x..bottomright.x) x (topleft.y..bottomright.y) at its zoom
\* in the tile store.
C15_ImageImpliesTiles ==
    \A path \in DOMAIN images :
        /\ path \in DOMAIN built
        /\ built[path].range.ok
        /\ LET tl == built[path].range.val[1]
               br == built[path].range.val[2]
           IN  \A x \in tl[1]..br[1], y \in tl[2]..br[2] :
                   _get_tile_path(x, y, built[path].zoom) \in DOMAIN tiles

\* an image of four tiles saved by the call that follows a build stopped by
\* a fetch
C15_Witness ==
    /\ IsMiss(prev) /\ ~prev.ok /\ prev.fetched # <<>>
    /\ IsMiss(last) /\ last.ok
    /\ last.path \in DOMAIN images
    /\ Len(OrderOf(last.first_point, last.second_point, last.zoom)) = 4

----------------------------------------------------------------------------
(* C16 *)

\* the tiles a stopped build fetched before the one that stopped it are in
\* the tile store
TilesSurviveAbort ==
    (IsMiss(last) /\ ~last.ok)
        => \A k \in 1..(Len(last.fetched) - 1) :
              _get_tile_path(last.fetched[k][1], last.fetched[k][2], last.zoom)
                  \in DOMAIN tiles

\* the call that repeats a stopped build sends no GET for a tile the stopped
\* build had fetched
OnlyAbsentTilesFetched ==
    (IsMiss(prev) /\ ~prev.ok /\ IsImageCall(last) /\ SameRequest(prev, last))
        => \A k \in 1..(Len(prev.fetched) - 1) :
              \A e \in EventsOf(last.events, "GET") :
                 last.events[e].at
                    # _get_tile_url(prev.fetched[k][1], prev.fetched[k][2], prev.zoom)

\* the image of the repeated request is in the image store
Persisted(zoom) ==
    LET bb == calculate_bounding_box(RetryCorners[1], RetryCorners[2])
    IN  _get_image_path(RetryName, bb[1], bb[2], bb[3], bb[4], zoom).val
            \in DOMAIN images

\* C16: after a build stopped by a failed tile fetch the tiles fetched before
\* the failure remain in the tile store and a later identical call sends GETs
\* only for the tiles still absent; when the call is repeated and the fetches
\* come to succeed, the image is persisted in the end.
C16_RepeatedCallsPersistImage ==
    /\ [](TilesSurviveAbort /\ OnlyAbsentTilesFetched)
    /\ \A zoom \in Zooms :
          (IsMiss(last) /\ ~last.ok /\ last.zoom = zoom) ~> Persisted(zoom)

====
